---------------------------- MODULE Spec2Model ----------------------------
(***************************************************************************)
(* Lamport logical-clock virtual machines.                                 *)
(*                                                                         *)
(* A cluster of VirtualMachine objects.  Each machine has a scheduler      *)
(* thread (run), a listener thread (listen_for_messages), one short-lived  *)
(* handler thread per accepted connection (handle_client) and an external  *)
(* caller of stop().  Two variants of the class are modelled side by side: *)
(*   "multiprocess"  src/src/virtual_machines_multiprocess.py              *)
(*   "logclock"      src/logclock.py                                       *)
(* The variant is fixed at construction and never changes.                 *)
(*                                                                         *)
(* Granularity.  Steps of one thread that read or write nothing another    *)
(* thread writes or reads in between are taken as one step:                *)
(*   - the test of self.running, the transfer loop from network_queue to   *)
(*     message_queue, the emptiness test of message_queue and the lock     *)
(*     acquisition (a put that lands during the transfer loop behaves as   *)
(*     a put before or after the whole loop);                              *)
(*   - the random draw of event_type, which depends on no state, is made   *)
(*     in the step that branches on it.                                    *)
(* The clock mutation under the lock, every send_message call and the      *)
(* log_event call are steps of their own, so stop() and message arrival    *)
(* interleave with them.                                                   *)
(***************************************************************************)
EXTENDS Integers, Sequences, FiniteSets, TLC

(***************************************************************************)
(* Bounds of the model.                                                    *)
(***************************************************************************)
\* ticks the whole cluster may start
MaxTicks == 3

\* largest clock value a machine holds in a cluster caught in mid-run
MaxClock == 9

\* connections made by clients outside the cluster
MaxExternal == 2
MaxSteps == 4

(***************************************************************************)
(* The cluster.  Two machines run; a peer list may also name machine 2,    *)
(* which is never started (as the tests construct VirtualMachine(0, [1, 2])*)
(* with no machine 1 or 2 running), so a connect to it is always refused.  *)
(* The peer lists are fixed at construction; the configurations give a     *)
(* machine with two peers, machines with one peer and a machine with none. *)
(***************************************************************************)
VMs == {0, 1}

Variants == {"multiprocess", "logclock"}

PeerLists == {<<(<<1, 2>>), (<<0>>)>>, <<(<<1>>), (<<>>)>>}

\* random.randint(1, 10)
EventTypes == 1..10

\* None: log_event's default received_time
NoValue == -1

\* a byte of a payload that is not a decimal digit (digits are 0..9)
NonDigit == 10

\* what a client outside the cluster may write to a connection: nothing,
\* text that int() rejects, and text that int() accepts
ClientPayloads == {<<>>, <<NonDigit>>, <<1, NonDigit>>, <<7>>}

VARIABLES
    variant,        \* which source file the machines are instances of
    peers,          \* self.peers of every machine
    logical_clock,  \* self.logical_clock
    network_queue,  \* self.network_queue (multiprocess only)
    message_queue,  \* self.message_queue
    running,        \* self.running
    lock,           \* self.lock: "free" or "run" (held by the scheduler thread)
    log_file,       \* self.log_file: "open" or "closed"
    log,            \* event records written to the log file, in order
    server_socket,  \* the listening socket: "listening" or "closed"
    backlog,        \* connections made to the socket, not yet accepted
    handlers,       \* accepted connections whose handle_client has not run
    pc,             \* position of the scheduler thread in run()
    received_time,  \* run(): local received_time (NoValue when unset)
    log_kind,       \* argument of the pending log_event call ("" when none)
    send_todo,      \* peers send_message is still to be called for this tick
    exc,            \* exception that escaped run(): "none" or its name
    ticks,          \* history: loop iterations started
    before,         \* history: logical_clock at the start of the current tick
    mutations,      \* history: number of assignments to logical_clock
    pushed,         \* history: values put by handle_client, in put order
    consumed,       \* history: values popped by run(), in pop order
    last_send,      \* outcome of the tick's latest send_message call, if any
    stop_exc,       \* exception a stop() call raised to its caller, or "none"
    ext_sent,       \* history: payloads outside clients wrote to each machine
    waiting,        \* history: values delivered and not popped, counted
                    \* when the tick's get() returned (NoValue when no
                    \* popped value is without its record)
    streams,        \* clocks.py: bytes written to the connection of each
                    \* sender to each recipient and not yet returned by recv
    buffer          \* clocks.py: handle_client's local buffer, per connection

vars == <<variant, peers, logical_clock, network_queue, message_queue,
          running, lock, log_file, log, server_socket, backlog, handlers, pc,
          received_time, log_kind, send_todo, exc,
          ticks, before, mutations, pushed, consumed, last_send, stop_exc,
          ext_sent, waiting, streams, buffer>>

\* the variables by the thread that writes them; config is what no thread
\* of a machine writes: the construction arguments and what outside clients did
config == <<variant, peers, ext_sent>>
queues == <<network_queue, message_queue, pushed, consumed>>
sched == <<logical_clock, lock, log, pc, received_time, log_kind, send_todo,
           exc, ticks, before, mutations, last_send, waiting>>
control == <<running, log_file, stop_exc>>
net == <<server_socket, backlog, handlers>>
\* the persistent connections, which only clocks.py has
persistent == <<streams, buffer>>

(***************************************************************************)
(* Pure helpers.                                                           *)
(***************************************************************************)
MaxOf(a, b) == IF a >= b THEN a ELSE b

RECURSIVE DecStr(_)
\* str(n).encode(): the decimal digits of n, most significant first
DecStr(n) == IF n < 10 THEN <<n>> ELSE Append(DecStr(n \div 10), n % 10)

\* mutant of IsDigits: only `if message:` guards the put
IsDigits_NonEmpty(s) == s # <<>>

\* whether int(s) accepts the payload
IsDigits(s) == s # <<>> /\ \A i \in 1..Len(s) : s[i] \in 0..9

RECURSIVE ParseInt(_)
\* int(message): the value of a digit string
ParseInt(s) ==
    IF Len(s) = 1 THEN s[1]
    ELSE 10 * ParseInt(SubSeq(s, 1, Len(s) - 1)) + s[Len(s)]

\* mutants of the receive rule
OnReceive_ReceivedOnly(current, received) == received + 1

OnReceive_NoIncrement(current, received) == MaxOf(current, received)

OnReceive_Sum(current, received) == current + received + 1

\* self.logical_clock = max(self.logical_clock, received_time) + 1
OnReceive(current, received) == MaxOf(current, received) + 1

\* mutants of the local-event rule
OnLocal_Stuck(current) == current

OnLocal_Double(current) == current + 2

\* self.logical_clock += 1
OnLocal(current) == current + 1

\* mutant of Queue.put: the value is stored twice
QueuePut_Twice(q, x) == Append(Append(q, x), x)

\* mutant of Queue.put: pushes at the head
QueuePut_AtHead(q, x) == <<x>> \o q

\* queue.Queue.put: append at the tail
QueuePut(q, x) == Append(q, x)

\* mutant of QueueEmpty: the test always finds the queue empty
QueueEmpty_Always(q) == TRUE

\* queue.Queue.empty
QueueEmpty(q) == q = <<>>

\* queue.Queue.get / get_nowait on a non-empty queue returns the head
QueueFront(q) == Head(q)

\* and removes it
QueueRest(q) == Tail(q)

\* mutant of the transfer loop: the values taken from network_queue are not
\* put into message_queue
DrainAll_Dropped(nq, mq) == mq

RECURSIVE DrainAll(_, _)
\* `while not self.network_queue.empty():
\*      self.message_queue.put(self.network_queue.get_nowait())`
DrainAll(nq, mq) ==
    IF nq = <<>> THEN mq
    ELSE DrainAll(QueueRest(nq), QueuePut(mq, QueueFront(nq)))

TotalTicks == ticks[0] + ticks[1]

(***************************************************************************)
(* Construction: __init__ of every machine has returned, the listener      *)
(* threads have bound their sockets (run() sleeps one second before its    *)
(* first tick to allow for that) and run() is about to test self.running   *)
(* for the first time.                                                     *)
(***************************************************************************)
Init ==
    /\ variant \in Variants
    /\ \E pl \in PeerLists : peers = [m \in VMs |-> pl[m + 1]]
    /\ logical_clock = [m \in VMs |-> 0]
    /\ network_queue = [m \in VMs |-> <<>>]
    /\ message_queue = [m \in VMs |-> <<>>]
    /\ running = [m \in VMs |-> TRUE]
    /\ lock = [m \in VMs |-> "free"]
    /\ log_file = [m \in VMs |-> "open"]
    /\ log = [m \in VMs |-> <<>>]
    /\ server_socket = [m \in VMs |-> "listening"]
    /\ backlog = [m \in VMs |-> <<>>]
    /\ handlers = [m \in VMs |-> {}]
    /\ pc = [m \in VMs |-> "top"]
    /\ received_time = [m \in VMs |-> NoValue]
    /\ log_kind = [m \in VMs |-> ""]
    /\ send_todo = [m \in VMs |-> <<>>]
    /\ exc = [m \in VMs |-> "none"]
    /\ ticks = [m \in VMs |-> 0]
    /\ before = [m \in VMs |-> 0]
    /\ mutations = [m \in VMs |-> 0]
    /\ pushed = [m \in VMs |-> <<>>]
    /\ consumed = [m \in VMs |-> <<>>]
    /\ last_send = [m \in VMs |-> "none"]
    /\ stop_exc = [m \in VMs |-> "none"]
    /\ ext_sent = [m \in VMs |-> <<>>]
    /\ waiting = [m \in VMs |-> NoValue]
    /\ streams = [r \in VMs |-> [q \in VMs \ {r} |-> <<>>]]
    /\ buffer = [r \in VMs |-> [q \in VMs \ {r} |-> <<>>]]

(***************************************************************************)
(* run(): the scheduler thread.                                            *)
(***************************************************************************)

\* mutant of LoopTest: `while True:`
LoopTest_Always(m) == TRUE

\* the test of `while self.running:`
LoopTest(m) == running[m]

\* mutant of LoopExit: the loop does not test self.running and spins
LoopExit_Never(m) ==
    /\ pc[m] = "top"
    /\ ~running[m]
    /\ UNCHANGED vars

\* `while self.running:` found False: run() returns
LoopExit(m) ==
    /\ pc[m] = "top"
    /\ ~running[m]
    /\ pc' = [pc EXCEPT ![m] = "done"]
    /\ UNCHANGED <<config, persistent, queues, control, net, logical_clock, lock, log,
                   received_time, log_kind, send_todo, exc, ticks, before,
                   mutations, last_send, waiting>>

\* mutant of TickStart: the branch is entered without `with self.lock`
TickStart_NoLock(m) ==
    /\ pc[m] = "top"
    /\ LoopTest(m)
    /\ TotalTicks < MaxTicks
    /\ lock[m] = "free"
    /\ ticks' = [ticks EXCEPT ![m] = @ + 1]
    /\ before' = [before EXCEPT ![m] = logical_clock[m]]
    /\ lock' = lock
    /\ LET mq == IF variant = "multiprocess"
                 THEN DrainAll(network_queue[m], message_queue[m])
                 ELSE message_queue[m]
       IN /\ network_queue' = IF variant = "multiprocess"
                              THEN [network_queue EXCEPT ![m] = <<>>]
                              ELSE network_queue
          /\ pc' = [pc EXCEPT ![m] =
                      IF ~QueueEmpty(mq) THEN "recv_cs" ELSE "ev_cs"]
          /\ IF ~QueueEmpty(mq) /\ variant = "logclock"
             THEN /\ received_time' = [received_time EXCEPT ![m] =
                                          QueueFront(mq).val]
                  /\ consumed' = [consumed EXCEPT ![m] =
                                      Append(@, QueueFront(mq))]
                  /\ message_queue' = [message_queue EXCEPT ![m] =
                                          QueueRest(mq)]
                  /\ waiting' = [waiting EXCEPT ![m] = Len(QueueRest(mq))]
             ELSE /\ message_queue' = [message_queue EXCEPT ![m] = mq]
                  /\ UNCHANGED <<received_time, consumed, waiting>>
    /\ UNCHANGED <<config, persistent, control, net, logical_clock, log, log_kind,
                   send_todo, exc, mutations, pushed, last_send>>

\* `while self.running:` found True: the transfer loop (multiprocess), the
\* test `if not self.message_queue.empty()` and the lock acquisition of the
\* branch taken.  logclock.py calls get() before `with self.lock`.
TickStart(m) ==
    /\ pc[m] = "top"
    /\ LoopTest(m)
    /\ TotalTicks < MaxTicks
    /\ lock[m] = "free"
    /\ ticks' = [ticks EXCEPT ![m] = @ + 1]
    /\ before' = [before EXCEPT ![m] = logical_clock[m]]
    /\ lock' = [lock EXCEPT ![m] = "run"]
    /\ LET mq == IF variant = "multiprocess"
                 THEN DrainAll(network_queue[m], message_queue[m])
                 ELSE message_queue[m]
       IN /\ network_queue' = IF variant = "multiprocess"
                              THEN [network_queue EXCEPT ![m] = <<>>]
                              ELSE network_queue
          /\ pc' = [pc EXCEPT ![m] =
                      IF ~QueueEmpty(mq) THEN "recv_cs" ELSE "ev_cs"]
          /\ IF ~QueueEmpty(mq) /\ variant = "logclock"
             THEN /\ received_time' = [received_time EXCEPT ![m] =
                                          QueueFront(mq).val]
                  /\ consumed' = [consumed EXCEPT ![m] =
                                      Append(@, QueueFront(mq))]
                  /\ message_queue' = [message_queue EXCEPT ![m] =
                                          QueueRest(mq)]
                  /\ waiting' = [waiting EXCEPT ![m] = Len(QueueRest(mq))]
             ELSE /\ message_queue' = [message_queue EXCEPT ![m] = mq]
                  /\ UNCHANGED <<received_time, consumed, waiting>>
    /\ UNCHANGED <<config, persistent, control, net, logical_clock, log, log_kind,
                   send_todo, exc, mutations, pushed, last_send>>

\* body of `with self.lock:` in the receive branch, and the release
ReceiveLocked(m) ==
    /\ pc[m] = "recv_cs"
    /\ lock[m] = "run"
    /\ LET rt == IF variant = "logclock" THEN received_time[m]
                 ELSE QueueFront(message_queue[m]).val
       IN /\ logical_clock' = [logical_clock EXCEPT ![m] = OnReceive(@, rt)]
          /\ received_time' = [received_time EXCEPT ![m] = rt]
    /\ IF variant = "logclock"
       THEN UNCHANGED <<message_queue, consumed, waiting>>
       ELSE /\ consumed' = [consumed EXCEPT ![m] =
                                Append(@, QueueFront(message_queue[m]))]
            /\ message_queue' = [message_queue EXCEPT ![m] = QueueRest(@)]
            /\ waiting' = [waiting EXCEPT ![m] =
                              Len(QueueRest(message_queue[m]))
                              + Len(network_queue[m])]
    /\ mutations' = [mutations EXCEPT ![m] = @ + 1]
    /\ lock' = [lock EXCEPT ![m] = "free"]
    /\ log_kind' = [log_kind EXCEPT ![m] = "Received"]
    /\ pc' = [pc EXCEPT ![m] = "log"]
    /\ UNCHANGED <<config, persistent, control, net, network_queue, pushed, log,
                   send_todo, exc, ticks, before, last_send>>

(***************************************************************************)
(* The branch on event_type after the clock increment.                     *)
(*   multiprocess: `event_type == 1 and len(self.peers) > 0` ... else       *)
(*   logclock:     `event_type == 1: peer = self.peers[0]` (unguarded)      *)
(* EventKind is the argument of the log_event call the branch ends with,   *)
(* or "IndexError" when the subscript raises.                              *)
(***************************************************************************)
EventKind(v, r, ps) ==
    IF v = "multiprocess"
    THEN IF \/ r = 1 /\ Len(ps) > 0
            \/ r = 2 /\ Len(ps) > 1
            \/ r = 3
         THEN "Sent" ELSE "Internal"
    ELSE CASE r = 1 -> IF Len(ps) > 0 THEN "Sent" ELSE "IndexError"
           [] r = 2 -> IF Len(ps) > 1 THEN "Sent" ELSE "IndexError"
           [] r = 3 -> "Sent"
           [] OTHER -> "Internal"

\* mutant of SendTargets: every send event is a broadcast
SendTargets_AllPeers(v, r, ps) ==
    IF EventKind(v, r, ps) # "Sent" THEN <<>> ELSE ps

\* the peers send_message is called for, in call order
SendTargets(v, r, ps) ==
    IF EventKind(v, r, ps) # "Sent" THEN <<>>
    ELSE CASE r = 1 -> <<ps[1]>>
           [] r = 2 -> <<ps[2]>>
           [] OTHER -> ps

\* mutant of LocalLocked: the branch on event_type and its calls are inside
\* the `with self.lock` block
LocalLocked_KeepsLock(m, r) ==
    /\ pc[m] = "ev_cs"
    /\ lock[m] = "run"
    /\ logical_clock' = [logical_clock EXCEPT ![m] = OnLocal(@)]
    /\ mutations' = [mutations EXCEPT ![m] = @ + 1]
    /\ lock' = lock
    /\ LET k == EventKind(variant, r, peers[m])
           t == SendTargets(variant, r, peers[m])
       IN IF k = "IndexError"
          THEN /\ exc' = [exc EXCEPT ![m] = "IndexError"]
               /\ pc' = [pc EXCEPT ![m] = "crashed"]
               /\ UNCHANGED <<log_kind, send_todo>>
          ELSE /\ log_kind' = [log_kind EXCEPT ![m] = k]
               /\ send_todo' = [send_todo EXCEPT ![m] = t]
               /\ pc' = [pc EXCEPT ![m] = IF t # <<>> THEN "send" ELSE "log"]
               /\ exc' = exc
    /\ UNCHANGED <<config, persistent, queues, control, net, log, received_time, ticks,
                   before, last_send, waiting>>

\* the draw r, the body of `with self.lock: self.logical_clock += 1`, the
\* release, and the branch on event_type up to its first call
LocalLocked(m, r) ==
    /\ pc[m] = "ev_cs"
    /\ lock[m] = "run"
    /\ logical_clock' = [logical_clock EXCEPT ![m] = OnLocal(@)]
    /\ mutations' = [mutations EXCEPT ![m] = @ + 1]
    /\ lock' = [lock EXCEPT ![m] = "free"]
    /\ LET k == EventKind(variant, r, peers[m])
           t == SendTargets(variant, r, peers[m])
       IN IF k = "IndexError"
          THEN /\ exc' = [exc EXCEPT ![m] = "IndexError"]
               /\ pc' = [pc EXCEPT ![m] = "crashed"]
               /\ UNCHANGED <<log_kind, send_todo>>
          ELSE /\ log_kind' = [log_kind EXCEPT ![m] = k]
               /\ send_todo' = [send_todo EXCEPT ![m] = t]
               /\ pc' = [pc EXCEPT ![m] = IF t # <<>> THEN "send" ELSE "log"]
               /\ exc' = exc
    /\ UNCHANGED <<config, persistent, queues, control, net, log, received_time, ticks,
                   before, last_send, waiting>>

\* mutant of Payload: the clock the sender will have after its next tick
Payload_Ahead(m) == [src |-> m, data |-> DecStr(logical_clock[m] + 1)]

\* mutant of Payload: the clock as it was before the tick's increment
Payload_BeforeIncrement(m) == [src |-> m, data |-> DecStr(before[m])]

\* the bytes send_message writes: str(self.logical_clock).encode()
Payload(m) == [src |-> m, data |-> DecStr(logical_clock[m])]

\* whether a connect to machine t is accepted by its socket
Listening(t) == t \in VMs /\ server_socket[t] = "listening"

\* mutant of Connect: a refused message is kept for the peer all the same
Connect_Queued(t, msg) ==
    IF t \in VMs THEN [backlog EXCEPT ![t] = Append(@, msg)] ELSE backlog

\* s.connect + s.sendall to peer t: the connection and its payload reach the
\* peer's socket when it is listening; otherwise ConnectionRefusedError is
\* caught and nothing is kept.  The value is the new backlog of every machine.
Connect(t, msg) ==
    IF Listening(t) THEN [backlog EXCEPT ![t] = Append(@, msg)] ELSE backlog

\* mutant of SendMessage: the call retries until the peer accepts
SendMessage_WaitsForPeer(m) ==
    /\ pc[m] = "send"
    /\ send_todo[m] # <<>>
    /\ Listening(Head(send_todo[m]))
    /\ backlog' = Connect(Head(send_todo[m]), Payload(m))
    /\ last_send' = [last_send EXCEPT ![m] = "sent"]
    /\ send_todo' = [send_todo EXCEPT ![m] = Tail(@)]
    /\ pc' = [pc EXCEPT ![m] =
                IF Tail(send_todo[m]) # <<>> THEN "send" ELSE "log"]
    /\ UNCHANGED <<config, persistent, queues, control, server_socket, handlers,
                   logical_clock, lock, log, received_time, log_kind, exc,
                   ticks, before, mutations, waiting>>

\* mutant of SendMessage: ConnectionRefusedError is not caught and ends run()
SendMessage_RefusalEscapes(m) ==
    /\ pc[m] = "send"
    /\ send_todo[m] # <<>>
    /\ LET t == Head(send_todo[m])
           msg == Payload(m)
       IN /\ backlog' = Connect(t, msg)
          /\ last_send' = [last_send EXCEPT ![m] =
                              IF Listening(t) THEN "sent" ELSE "refused"]
          /\ exc' = [exc EXCEPT ![m] =
                        IF Listening(t) THEN @ ELSE "ConnectionRefusedError"]
          /\ pc' = [pc EXCEPT ![m] =
                      IF ~Listening(t) THEN "crashed"
                      ELSE IF Tail(send_todo[m]) # <<>> THEN "send" ELSE "log"]
    /\ send_todo' = [send_todo EXCEPT ![m] = Tail(@)]
    /\ UNCHANGED <<config, persistent, queues, control, server_socket, handlers,
                   logical_clock, lock, log, received_time, log_kind,
                   ticks, before, mutations, waiting>>

\* one send_message(peer) call of the tick
SendMessage(m) ==
    /\ pc[m] = "send"
    /\ send_todo[m] # <<>>
    /\ LET t == Head(send_todo[m])
           msg == Payload(m)
       IN /\ backlog' = Connect(t, msg)
          /\ last_send' = [last_send EXCEPT ![m] =
                              IF Listening(t) THEN "sent" ELSE "refused"]
    /\ send_todo' = [send_todo EXCEPT ![m] = Tail(@)]
    /\ pc' = [pc EXCEPT ![m] =
                IF Tail(send_todo[m]) # <<>> THEN "send" ELSE "log"]
    /\ UNCHANGED <<config, persistent, queues, control, server_socket, handlers,
                   logical_clock, lock, log, received_time, log_kind, exc,
                   ticks, before, mutations, waiting>>

\* mutant of EventRecord: the clock read before the tick's mutation
EventRecord_StaleClock(m) ==
    [kind |-> log_kind[m],
     received |-> IF log_kind[m] = "Received" THEN received_time[m]
                  ELSE NoValue,
     clock |-> before[m],
     qlen |-> IF log_kind[m] = "Received" THEN Len(message_queue[m])
              ELSE NoValue]

\* the record log_event writes: the clock and the length of message_queue
\* are read when log_event runs
EventRecord(m) ==
    [kind |-> log_kind[m],
     received |-> IF log_kind[m] = "Received" THEN received_time[m]
                  ELSE NoValue,
     clock |-> logical_clock[m],
     qlen |-> IF log_kind[m] = "Received" THEN Len(message_queue[m])
              ELSE NoValue]

\* log_event(kind) and the rest of the tick (the sleep).  Writing to a closed
\* file raises ValueError, which nothing in run() catches.
LogEvent(m) ==
    /\ pc[m] = "log"
    /\ IF log_file[m] = "open"
       THEN /\ log' = [log EXCEPT ![m] = Append(@, EventRecord(m))]
            /\ pc' = [pc EXCEPT ![m] = "top"]
            /\ exc' = exc
       ELSE /\ exc' = [exc EXCEPT ![m] = "ValueError"]
            /\ pc' = [pc EXCEPT ![m] = "crashed"]
            /\ log' = log
    /\ received_time' = [received_time EXCEPT ![m] = NoValue]
    /\ log_kind' = [log_kind EXCEPT ![m] = ""]
    /\ last_send' = [last_send EXCEPT ![m] = "none"]
    /\ waiting' = [waiting EXCEPT ![m] =
                      IF log_file[m] = "open" THEN NoValue ELSE @]
    /\ UNCHANGED <<config, persistent, queues, control, net, logical_clock, lock,
                   send_todo, ticks, before, mutations>>

(***************************************************************************)
(* listen_for_messages(): the listener thread.                             *)
(***************************************************************************)

\* accept() returns a connection, its handler thread is started, and
\* self.running is tested again: found False, the socket is closed
Accept(m) ==
    /\ server_socket[m] = "listening"
    /\ backlog[m] # <<>>
    /\ handlers' = [handlers EXCEPT ![m] = @ \cup {Head(backlog[m])}]
    /\ IF running[m]
       THEN /\ backlog' = [backlog EXCEPT ![m] = Tail(@)]
            /\ server_socket' = server_socket
       ELSE /\ backlog' = [backlog EXCEPT ![m] = <<>>]
            /\ server_socket' = [server_socket EXCEPT ![m] = "closed"]
    /\ UNCHANGED <<config, persistent, queues, control, sched>>

\* mutant of ListenerExit: the listener sets self.running again
ListenerExit_Revives(m) ==
    /\ server_socket[m] = "listening"
    /\ ~running[m]
    /\ running' = [running EXCEPT ![m] = TRUE]
    /\ UNCHANGED <<config, persistent, queues, sched, net, log_file, stop_exc>>

\* accept() times out, self.running is found False, server_socket.close()
ListenerExit(m) ==
    /\ server_socket[m] = "listening"
    /\ ~running[m]
    /\ server_socket' = [server_socket EXCEPT ![m] = "closed"]
    /\ backlog' = [backlog EXCEPT ![m] = <<>>]
    /\ UNCHANGED <<config, persistent, queues, control, sched, handlers>>

\* mutant of HandleClient: the receive rule is applied when the value arrives
HandleClient_UpdatesClock(m) ==
    \E c \in handlers[m] :
        /\ handlers' = [handlers EXCEPT ![m] = @ \ {c}]
        /\ IF IsDigits(c.data)
           THEN LET x == [src |-> c.src, val |-> ParseInt(c.data)]
                IN /\ IF variant = "multiprocess"
                      THEN /\ network_queue' = [network_queue EXCEPT ![m] =
                                                    QueuePut(@, x)]
                           /\ message_queue' = message_queue
                      ELSE /\ message_queue' = [message_queue EXCEPT ![m] =
                                                    QueuePut(@, x)]
                           /\ network_queue' = network_queue
                   /\ pushed' = [pushed EXCEPT ![m] = Append(@, x)]
                   /\ consumed' = consumed
           ELSE UNCHANGED queues
        /\ logical_clock' = [logical_clock EXCEPT ![m] =
                                IF IsDigits(c.data)
                                THEN OnReceive(@, ParseInt(c.data)) ELSE @]
        /\ UNCHANGED <<config, persistent, control, server_socket, backlog, lock, log,
                       pc, received_time, log_kind, send_todo, exc, ticks,
                       before, mutations, last_send, waiting>>

\* handle_client(conn): recv, `if message:`, int(message), put.  An empty
\* payload is skipped; one int() rejects raises ValueError, which the
\* handler catches.
HandleClient(m) ==
    \E c \in handlers[m] :
        /\ handlers' = [handlers EXCEPT ![m] = @ \ {c}]
        /\ IF IsDigits(c.data)
           THEN LET x == [src |-> c.src, val |-> ParseInt(c.data)]
                IN /\ IF variant = "multiprocess"
                      THEN /\ network_queue' = [network_queue EXCEPT ![m] =
                                                    QueuePut(@, x)]
                           /\ message_queue' = message_queue
                      ELSE /\ message_queue' = [message_queue EXCEPT ![m] =
                                                    QueuePut(@, x)]
                           /\ network_queue' = network_queue
                   /\ pushed' = [pushed EXCEPT ![m] = Append(@, x)]
                   /\ consumed' = consumed
           ELSE UNCHANGED queues
        /\ UNCHANGED <<config, persistent, control, sched, server_socket, backlog>>

(***************************************************************************)
(* stop(), called from a thread outside the machine.                       *)
(*   multiprocess: closes the server socket (connections still in its      *)
(*                 backlog are dropped) and, if it is not closed yet, the  *)
(*                 log file                                                *)
(*   logclock:     writes the end marker and closes the log file (on a     *)
(*                 closed file the write raises ValueError to the caller,  *)
(*                 after self.running was cleared); the socket is left to  *)
(*                 the listener                                            *)
(* Stop is the first call on a machine; StopAgain is any later one.        *)
(***************************************************************************)
\* mutant of Stop: the call empties the two queues
Stop_Drains(m) ==
    /\ running[m]
    /\ running' = [running EXCEPT ![m] = FALSE]
    /\ IF variant = "multiprocess" /\ server_socket[m] = "listening"
       THEN /\ server_socket' = [server_socket EXCEPT ![m] = "closed"]
            /\ backlog' = [backlog EXCEPT ![m] = <<>>]
       ELSE UNCHANGED <<server_socket, backlog>>
    /\ log_file' = [log_file EXCEPT ![m] = "closed"]
    /\ network_queue' = [network_queue EXCEPT ![m] = <<>>]
    /\ message_queue' = [message_queue EXCEPT ![m] = <<>>]
    /\ UNCHANGED <<config, persistent, pushed, consumed, sched, handlers, stop_exc>>

Stop(m) ==
    /\ running[m]
    /\ running' = [running EXCEPT ![m] = FALSE]
    /\ IF variant = "multiprocess" /\ server_socket[m] = "listening"
       THEN /\ server_socket' = [server_socket EXCEPT ![m] = "closed"]
            /\ backlog' = [backlog EXCEPT ![m] = <<>>]
       ELSE UNCHANGED <<server_socket, backlog>>
    /\ log_file' = [log_file EXCEPT ![m] = "closed"]
    /\ UNCHANGED <<config, persistent, queues, sched, handlers, stop_exc>>

\* stop() called on a machine that has been stopped already.
\*   multiprocess: self.running stays False, close() of the closed socket
\*                 does nothing, `not self.log_file.closed` is False
\*   logclock:     `if self.log_file:` is true of a closed file object, and
\*                 self.log_file.write raises ValueError to the caller
StopAgain(m) ==
    /\ ~running[m]
    /\ stop_exc' = [stop_exc EXCEPT ![m] =
                       IF variant = "logclock" THEN "ValueError" ELSE @]
    /\ UNCHANGED <<config, persistent, queues, sched, net, running, log_file>>

Next ==
    \E m \in VMs :
        \/ LoopExit(m)
        \/ TickStart(m)
        \/ ReceiveLocked(m)
        \/ \E r \in EventTypes : LocalLocked(m, r)
        \/ SendMessage(m)
        \/ LogEvent(m)
        \/ Accept(m)
        \/ ListenerExit(m)
        \/ HandleClient(m)
        \/ Stop(m)

Spec == Init /\ [][Next]_vars

(***************************************************************************)
(* A cluster caught in mid-run, to reach large clock values with few       *)
(* further ticks.  Machine 0 has completed c ticks that all drew an        *)
(* internal event (4..10), so its clock is c; machine 1 has completed      *)
(* v - 1 such ticks and then a tick that drew 1 and sent its clock v to    *)
(* its peer 0; that message has been accepted and put by handle_client     *)
(* and waits in machine 0's inbox.  The history counters ticks and         *)
(* mutations count from this state on.  From here the scheduler thread of  *)
(* machine 0 runs while no other thread is scheduled.                      *)
(***************************************************************************)
InternalRecord(c) ==
    [kind |-> "Internal", received |-> NoValue, clock |-> c, qlen |-> NoValue]

SentRecord(c) ==
    [kind |-> "Sent", received |-> NoValue, clock |-> c, qlen |-> NoValue]

InitMidRun ==
    /\ variant \in Variants
    /\ peers = [m \in VMs |-> IF m = 0 THEN <<1, 2>> ELSE <<0>>]
    /\ \E c \in 0..MaxClock, v \in 1..MaxClock :
          LET x == [src |-> 1, val |-> v]
          IN /\ logical_clock = [m \in VMs |-> IF m = 0 THEN c ELSE v]
             /\ log = [m \in VMs |->
                         IF m = 0 THEN [i \in 1..c |-> InternalRecord(i)]
                         ELSE [i \in 1..v |-> IF i < v THEN InternalRecord(i)
                                               ELSE SentRecord(i)]]
             /\ network_queue = [m \in VMs |->
                   IF m = 0 /\ variant = "multiprocess"
                   THEN QueuePut(<<>>, x) ELSE <<>>]
             /\ message_queue = [m \in VMs |->
                   IF m = 0 /\ variant = "logclock"
                   THEN QueuePut(<<>>, x) ELSE <<>>]
             /\ pushed = [m \in VMs |-> IF m = 0 THEN <<x>> ELSE <<>>]
             /\ before = [m \in VMs |-> IF m = 0 THEN c ELSE v]
    /\ running = [m \in VMs |-> TRUE]
    /\ lock = [m \in VMs |-> "free"]
    /\ log_file = [m \in VMs |-> "open"]
    /\ server_socket = [m \in VMs |-> "listening"]
    /\ backlog = [m \in VMs |-> <<>>]
    /\ handlers = [m \in VMs |-> {}]
    /\ pc = [m \in VMs |-> "top"]
    /\ received_time = [m \in VMs |-> NoValue]
    /\ log_kind = [m \in VMs |-> ""]
    /\ send_todo = [m \in VMs |-> <<>>]
    /\ exc = [m \in VMs |-> "none"]
    /\ ticks = [m \in VMs |-> 0]
    /\ mutations = [m \in VMs |-> 0]
    /\ consumed = [m \in VMs |-> <<>>]
    /\ last_send = [m \in VMs |-> "none"]
    /\ stop_exc = [m \in VMs |-> "none"]
    /\ ext_sent = [m \in VMs |-> <<>>]
    /\ waiting = [m \in VMs |-> NoValue]
    /\ streams = [r \in VMs |-> [q \in VMs \ {r} |-> <<>>]]
    /\ buffer = [r \in VMs |-> [q \in VMs \ {r} |-> <<>>]]

SchedulerOnly ==
    \/ TickStart(0)
    \/ ReceiveLocked(0)
    \/ \E r \in EventTypes : LocalLocked(0, r)
    \/ SendMessage(0)
    \/ LogEvent(0)

SpecMidRun == InitMidRun /\ [][SchedulerOnly]_vars

(***************************************************************************)
(* The cluster with callers that stop a machine more than once, as the     *)
(* tests do (stop() in the test body, stop() again in tearDown).           *)
(***************************************************************************)
NextStopTwice ==
    \E m \in VMs :
        \/ LoopExit(m)
        \/ TickStart(m)
        \/ ReceiveLocked(m)
        \/ \E r \in EventTypes : LocalLocked(m, r)
        \/ SendMessage(m)
        \/ LogEvent(m)
        \/ Accept(m)
        \/ ListenerExit(m)
        \/ HandleClient(m)
        \/ Stop(m)
        \/ StopAgain(m)

SpecStopTwice == Init /\ [][NextStopTwice]_vars

(***************************************************************************)
(* The cluster with clients outside it: anything that can reach the port   *)
(* can connect to a machine's socket and write what it likes, as the       *)
(* tests do (check_port connects and writes nothing; test_message_sending  *)
(* writes a number).  A client writes each of its payloads to a machine at *)
(* most once.  Here the clients connect to machine 0, whose threads run    *)
(* while machine 1 is not scheduled, and nothing is stopped.               *)
(***************************************************************************)
ExternalConnect(m, data) ==
    /\ Listening(m)
    /\ Len(ext_sent[0]) + Len(ext_sent[1]) < MaxExternal
    /\ \A i \in 1..Len(ext_sent[m]) : ext_sent[m][i] # data
    /\ backlog' = [backlog EXCEPT ![m] =
                      Append(@, [src |-> NoValue, data |-> data])]
    /\ ext_sent' = [ext_sent EXCEPT ![m] = Append(@, data)]
    /\ UNCHANGED <<variant, peers, persistent, queues, control, sched,
                   server_socket, handlers>>

NextClients ==
    \/ TickStart(0)
    \/ ReceiveLocked(0)
    \/ \E r \in EventTypes : LocalLocked(0, r)
    \/ SendMessage(0)
    \/ LogEvent(0)
    \/ Accept(0)
    \/ HandleClient(0)
    \/ \E data \in ClientPayloads : ExternalConnect(0, data)

SpecClients == Init /\ [][NextClients]_vars

(***************************************************************************)
(* The head of a tick, statement by statement.  TickStart takes the        *)
(* transfer loop, the test of message_queue and the get in one step; here  *)
(* every empty() test and every get is a step of its own, so that handler  *)
(* threads put values between a test and the get that follows it.          *)
(*   get_nowait() on an empty queue raises queue.Empty, which run() does   *)
(*   not catch; get() on an empty queue blocks until a value is put.       *)
(* Machine 0 runs this way with its listener and handlers; machine 1 is    *)
(* the sender.  Nothing is stopped.                                        *)
(***************************************************************************)

\* `while self.running:` found True; start_time = time.time()
LoopEnter(m) ==
    /\ pc[m] = "top"
    /\ LoopTest(m)
    /\ TotalTicks < MaxTicks
    /\ ticks' = [ticks EXCEPT ![m] = @ + 1]
    /\ before' = [before EXCEPT ![m] = logical_clock[m]]
    /\ pc' = [pc EXCEPT ![m] =
                IF variant = "multiprocess" THEN "drain" ELSE "test"]
    /\ UNCHANGED <<config, persistent, queues, control, net, logical_clock, lock, log,
                   received_time, log_kind, send_todo, exc, mutations,
                   last_send, waiting>>

\* mutant of DrainTest: get_nowait() is called without the empty() test
DrainTest_NoTest(m) ==
    /\ pc[m] = "drain"
    /\ pc' = [pc EXCEPT ![m] = "drain_get"]
    /\ UNCHANGED <<config, persistent, queues, control, net, logical_clock, lock, log,
                   received_time, log_kind, send_todo, exc, ticks, before,
                   mutations, last_send, waiting>>

\* `while not self.network_queue.empty():`
DrainTest(m) ==
    /\ pc[m] = "drain"
    /\ pc' = [pc EXCEPT ![m] =
                IF QueueEmpty(network_queue[m]) THEN "test" ELSE "drain_get"]
    /\ UNCHANGED <<config, persistent, queues, control, net, logical_clock, lock, log,
                   received_time, log_kind, send_todo, exc, ticks, before,
                   mutations, last_send, waiting>>

\* `self.message_queue.put(self.network_queue.get_nowait())`
DrainGet(m) ==
    /\ pc[m] = "drain_get"
    /\ IF network_queue[m] = <<>>
       THEN /\ exc' = [exc EXCEPT ![m] = "Empty"]
            /\ pc' = [pc EXCEPT ![m] = "crashed"]
            /\ UNCHANGED <<network_queue, message_queue>>
       ELSE /\ message_queue' = [message_queue EXCEPT ![m] =
                                    QueuePut(@, QueueFront(network_queue[m]))]
            /\ network_queue' = [network_queue EXCEPT ![m] = QueueRest(@)]
            /\ pc' = [pc EXCEPT ![m] = "drain"]
            /\ exc' = exc
    /\ UNCHANGED <<config, persistent, control, net, pushed, consumed, logical_clock,
                   lock, log, received_time, log_kind, send_todo, ticks,
                   before, mutations, last_send, waiting>>

\* `if not self.message_queue.empty():` and, where the next statement is
\* `with self.lock:`, the acquisition
InboxTest(m) ==
    /\ pc[m] = "test"
    /\ lock[m] = "free"
    /\ IF QueueEmpty(message_queue[m])
       THEN /\ pc' = [pc EXCEPT ![m] = "ev_cs"]
            /\ lock' = [lock EXCEPT ![m] = "run"]
       ELSE IF variant = "multiprocess"
            THEN /\ pc' = [pc EXCEPT ![m] = "recv_cs"]
                 /\ lock' = [lock EXCEPT ![m] = "run"]
            ELSE /\ pc' = [pc EXCEPT ![m] = "get"]
                 /\ lock' = lock
    /\ UNCHANGED <<config, persistent, queues, control, net, logical_clock, log,
                   received_time, log_kind, send_todo, exc, ticks, before,
                   mutations, last_send, waiting>>

\* logclock.py: `received_time = self.message_queue.get()` and the
\* acquisition of the lock that follows
InboxGet(m) ==
    /\ pc[m] \in {"get", "blocked"}
    /\ IF message_queue[m] = <<>>
       THEN /\ pc[m] = "get"
            /\ pc' = [pc EXCEPT ![m] = "blocked"]
            /\ UNCHANGED <<message_queue, consumed, received_time, waiting,
                           lock>>
       ELSE /\ lock[m] = "free"
            /\ received_time' = [received_time EXCEPT ![m] =
                                    QueueFront(message_queue[m]).val]
            /\ consumed' = [consumed EXCEPT ![m] =
                                Append(@, QueueFront(message_queue[m]))]
            /\ message_queue' = [message_queue EXCEPT ![m] = QueueRest(@)]
            /\ waiting' = [waiting EXCEPT ![m] =
                              Len(QueueRest(message_queue[m]))]
            /\ lock' = [lock EXCEPT ![m] = "run"]
            /\ pc' = [pc EXCEPT ![m] = "recv_cs"]
    /\ UNCHANGED <<config, persistent, control, net, network_queue, pushed,
                   logical_clock, log, log_kind, send_todo, exc, ticks,
                   before, mutations, last_send>>

NextPops ==
    \/ LoopEnter(0)
    \/ DrainTest(0)
    \/ DrainGet(0)
    \/ InboxTest(0)
    \/ InboxGet(0)
    \/ ReceiveLocked(0)
    \/ \E r \in EventTypes : LocalLocked(0, r)
    \/ SendMessage(0)
    \/ LogEvent(0)
    \/ Accept(0)
    \/ HandleClient(0)
    \/ TickStart(1)
    \/ \E r \in EventTypes : LocalLocked(1, r)
    \/ SendMessage(1)
    \/ LogEvent(1)

SpecPops == Init /\ [][NextPops]_vars

(***************************************************************************)
(* clocks.py: the variant with persistent connections.  Three processes,   *)
(* as its main block starts them; each connects once to each of the other  *)
(* two before its main_loop begins and writes every message for a          *)
(* recipient to that one connection, as a line of JSON; the recipient has  *)
(* one handle_client thread per connection, which splits what recv returns *)
(* into lines and puts them into message_queue.  main_loop takes no lock   *)
(* and each of its ticks is one call of process_message or process_event.  *)
(* The state is taken when every run() has connected to the others.  Of    *)
(* a line the model keeps the digits of 'logical_time' and the newline;    *)
(* 'sender_port' is the port of the process at the other end of the        *)
(* connection, from which the model takes src.                             *)
(***************************************************************************)
Ports == {0, 1, 2}

\* the byte b'\n' that ends a line
Newline == 11

\* json.dumps({'logical_time': c, ...}) + '\n'
EncodeLine(c) == DecStr(c) \o <<Newline>>

\* position of the first newline of buf, 0 when it holds none
FirstNewline(buf) ==
    IF \E i \in 1..Len(buf) : buf[i] = Newline
    THEN CHOOSE i \in 1..Len(buf) :
            /\ buf[i] = Newline
            /\ \A j \in 1..(i - 1) : buf[j] # Newline
    ELSE 0

RECURSIVE SplitLines(_)
\* `while b'\n' in buffer: line, buffer = buffer.split(b'\n', 1)`: the
\* complete lines of buf in order, and what is left of it
SplitLines(buf) ==
    LET i == FirstNewline(buf)
    IN IF i = 0 THEN [lines |-> <<>>, rest |-> buf]
       ELSE LET r == SplitLines(SubSeq(buf, i + 1, Len(buf)))
            IN [lines |-> <<SubSeq(buf, 1, i - 1)>> \o r.lines,
                rest |-> r.rest]

RECURSIVE PutLines_Reversed(_, _, _)
\* mutant of PutLines: the lines of one recv are put last line first
PutLines_Reversed(q, lines, src) ==
    IF lines = <<>> \/ ~IsDigits(Head(lines)) THEN q
    ELSE QueuePut(PutLines_Reversed(q, Tail(lines), src),
                  [src |-> src, val |-> ParseInt(Head(lines))])

RECURSIVE PutLines(_, _, _)
\* `message = json.loads(line.decode()); self.message_queue.put(message)`
\* for each line in turn; a line json.loads rejects ends the thread before
\* its put
PutLines(q, lines, src) ==
    IF lines = <<>> \/ ~IsDigits(Head(lines)) THEN q
    ELSE PutLines(QueuePut(q, [src |-> src, val |-> ParseInt(Head(lines))]),
                  Tail(lines), src)

\* ticks of main_loop made so far by the three processes
TotalSteps == ticks[0] + ticks[1] + ticks[2]

\* `self.other_ports[:] if rand == 3 else [self.other_ports[rand-1]]` for
\* rand <= 3, nobody otherwise
Recipients(rand, other_ports) ==
    IF rand = 3 THEN other_ports
    ELSE IF rand <= 2 THEN <<other_ports[rand]>>
    ELSE <<>>

InitPersistent ==
    /\ variant = "clocks"
    /\ peers = [m \in Ports |->
                  IF m = 0 THEN <<1, 2>> ELSE IF m = 1 THEN <<0, 2>>
                  ELSE <<0, 1>>]
    /\ logical_clock = [m \in Ports |-> 0]
    /\ message_queue = [m \in Ports |-> <<>>]
    /\ running = [m \in Ports |-> TRUE]
    /\ log = [m \in Ports |-> <<>>]
    /\ ticks = [m \in Ports |-> 0]
    /\ before = [m \in Ports |-> 0]
    /\ mutations = [m \in Ports |-> 0]
    /\ pushed = [m \in Ports |-> <<>>]
    /\ consumed = [m \in Ports |-> <<>>]
    /\ streams = [r \in Ports |-> [q \in Ports \ {r} |-> <<>>]]
    /\ buffer = [r \in Ports |-> [q \in Ports \ {r} |-> <<>>]]
    /\ network_queue = [m \in Ports |-> <<>>]
    /\ lock = [m \in Ports |-> "free"]
    /\ log_file = [m \in Ports |-> "open"]
    /\ server_socket = [m \in Ports |-> "listening"]
    /\ backlog = [m \in Ports |-> <<>>]
    /\ handlers = [m \in Ports |-> {}]
    /\ pc = [m \in Ports |-> "top"]
    /\ received_time = [m \in Ports |-> NoValue]
    /\ log_kind = [m \in Ports |-> ""]
    /\ send_todo = [m \in Ports |-> <<>>]
    /\ exc = [m \in Ports |-> "none"]
    /\ last_send = [m \in Ports |-> "none"]
    /\ stop_exc = [m \in Ports |-> "none"]
    /\ ext_sent = [m \in Ports |-> <<>>]
    /\ waiting = [m \in Ports |-> NoValue]

\* what the clocks.py actions leave alone
unused == <<variant, peers, network_queue, lock, log_file, server_socket,
            backlog, handlers, pc, received_time, log_kind, send_todo, exc,
            last_send, stop_exc, ext_sent, waiting>>

\* a tick of main_loop that finds message_queue non-empty: process_message
ProcessMessage(m) ==
    /\ running[m]
    /\ TotalSteps < MaxSteps
    /\ ~QueueEmpty(message_queue[m])
    /\ LET message == QueueFront(message_queue[m])
           clock == OnReceive(logical_clock[m], message.val)
       IN /\ message_queue' = [message_queue EXCEPT ![m] = QueueRest(@)]
          /\ consumed' = [consumed EXCEPT ![m] = Append(@, message)]
          /\ logical_clock' = [logical_clock EXCEPT ![m] = clock]
          /\ log' = [log EXCEPT ![m] =
                        Append(@, [kind |-> "receive",
                                   received |-> message.val,
                                   clock |-> clock,
                                   qlen |-> Len(QueueRest(message_queue[m])),
                                   recipients |-> <<>>])]
    /\ ticks' = [ticks EXCEPT ![m] = @ + 1]
    /\ before' = [before EXCEPT ![m] = logical_clock[m]]
    /\ mutations' = [mutations EXCEPT ![m] = @ + 1]
    /\ UNCHANGED <<unused, running, pushed, persistent>>

\* a tick of main_loop that finds message_queue empty: process_event with
\* the draw rand.  sendall on the connection to a process that was
\* terminated raises, which `except: pass` drops.
ProcessEvent(m, rand) ==
    /\ running[m]
    /\ TotalSteps < MaxSteps
    /\ QueueEmpty(message_queue[m])
    /\ LET recipients == Recipients(rand, peers[m])
           clock == OnLocal(logical_clock[m])
           to == {recipients[i] : i \in 1..Len(recipients)}
       IN /\ logical_clock' = [logical_clock EXCEPT ![m] = clock]
          /\ streams' = [r \in Ports |-> [q \in Ports \ {r} |->
                            IF q = m /\ r \in to /\ running[r]
                            THEN streams[r][q] \o EncodeLine(clock)
                            ELSE streams[r][q]]]
          /\ log' = [log EXCEPT ![m] =
                        Append(@, [kind |-> IF rand <= 3 THEN "send"
                                            ELSE "internal",
                                   received |-> NoValue,
                                   clock |-> clock,
                                   qlen |-> NoValue,
                                   recipients |-> recipients])]
    /\ ticks' = [ticks EXCEPT ![m] = @ + 1]
    /\ before' = [before EXCEPT ![m] = logical_clock[m]]
    /\ mutations' = [mutations EXCEPT ![m] = @ + 1]
    /\ UNCHANGED <<unused, running, message_queue, pushed, consumed, buffer>>

\* handle_client of process r for the connection of process q: one
\* recv(1024), which returns the first k bytes waiting, and the loop that
\* puts the complete lines
Recv(r, q, k) ==
    /\ running[r]
    /\ k \in 1..Len(streams[r][q])
    /\ LET data == SubSeq(streams[r][q], 1, k)
           split == SplitLines(buffer[r][q] \o data)
           mq == PutLines(message_queue[r], split.lines, q)
       IN /\ streams' = [streams EXCEPT ![r][q] =
                            SubSeq(@, k + 1, Len(@))]
          /\ buffer' = [buffer EXCEPT ![r][q] = split.rest]
          /\ message_queue' = [message_queue EXCEPT ![r] = mq]
          /\ pushed' = [pushed EXCEPT ![r] =
                          @ \o SubSeq(mq, Len(message_queue[r]) + 1, Len(mq))]
    /\ UNCHANGED <<unused, running, logical_clock, log, ticks, before,
                   mutations, consumed>>

\* vm.terminate() from the main block: the process is killed
Terminate(m) ==
    /\ running[m]
    /\ running' = [running EXCEPT ![m] = FALSE]
    /\ UNCHANGED <<unused, persistent, logical_clock, message_queue, log,
                   ticks, before, mutations, pushed, consumed>>

\* Process 0 is the recipient that is followed: its main_loop, its two
\* handle_client threads and its termination; of processes 1 and 2 the
\* main_loop runs while their handler threads are not scheduled, so that
\* they are senders with an empty message_queue.
NextPersistent ==
    \/ ProcessMessage(0)
    \/ \E m \in Ports, rand \in EventTypes : ProcessEvent(m, rand)
    \/ \E q \in Ports \ {0}, k \in 1..(2 * MaxSteps) : Recv(0, q, k)
    \/ Terminate(0)

SpecPersistent == InitPersistent /\ [][NextPersistent]_vars

(***************************************************************************)
(* The cluster under fair scheduling.  Every thread of a machine that can  *)
(* take a step eventually takes it: run() sleeps a bounded time between    *)
(* ticks, accept() times out after one second, a handler thread runs as    *)
(* soon as it is started.  stop() is called from outside and is under no   *)
(* obligation to happen.  So that the tick bound cannot be used up by the  *)
(* other machine, each machine has an allowance of its own: machine 0      *)
(* makes one tick, machine 1 has the rest of MaxTicks.                     *)
(***************************************************************************)
Allowance(m) == IF m = 0 THEN 1 ELSE MaxTicks - 1

\* ticks machine m is still sure to start if it is not stopped
TicksLeft(m) == Allowance(m) - ticks[m]

\* a step of the thread that executes run()
SchedulerStep(m) ==
    \/ LoopExit(m)
    \/ TickStart(m) /\ ticks[m] < Allowance(m)
    \/ ReceiveLocked(m)
    \/ \E r \in EventTypes : LocalLocked(m, r)
    \/ SendMessage(m)
    \/ LogEvent(m)

\* a step of the listener thread
ListenerStep(m) == Accept(m) \/ ListenerExit(m)

NextLive ==
    \E m \in VMs :
        \/ SchedulerStep(m)
        \/ ListenerStep(m)
        \/ HandleClient(m)
        \/ Stop(m)

Fairness ==
    \A m \in VMs :
        /\ WF_vars(SchedulerStep(m))
        /\ WF_vars(ListenerStep(m))
        /\ WF_vars(HandleClient(m))

SpecLive == Init /\ [][NextLive]_vars /\ Fairness

(***************************************************************************)
(* Properties.                                                             *)
(***************************************************************************)

\* the clock a machine had when the tick of its i-th record began: every
\* completed tick writes one record, so it is the clock of the record before
PrevClock(m, i) == IF i = 1 THEN 0 ELSE log[m][i - 1].clock

\* how many of the first i records of machine m are Received records
NumReceived(m, i) == Cardinality({k \in 1..i : log[m][k].kind = "Received"})

Last(q) == q[Len(q)]

\* C1: a tick that finds a pending message sets the clock to
\* max(clock before the tick, value popped) + 1 -- in the tick itself, once
\* the mutation is done, and in every Received record written -- for every
\* clock before the tick in 0..MaxClock and every value popped in 1..MaxClock.
C1_ReceiveRule ==
    \A m \in VMs :
        /\ (pc[m] = "log" /\ log_kind[m] = "Received") =>
              /\ received_time[m] = Last(consumed[m]).val
              /\ logical_clock[m] =
                    (IF before[m] >= received_time[m] THEN before[m]
                     ELSE received_time[m]) + 1
        /\ \A i \in 1..Len(log[m]) :
              log[m][i].kind = "Received" =>
                 log[m][i].clock =
                    (IF PrevClock(m, i) >= log[m][i].received
                     THEN PrevClock(m, i) ELSE log[m][i].received) + 1

\* the branch of the maximum in which the own clock wins: a machine at
\* clock 9 has received 3 and logged 10
C1_Witness ==
    \E m \in VMs : \E i \in 1..Len(log[m]) :
        /\ log[m][i].kind = "Received"
        /\ PrevClock(m, i) = 9
        /\ log[m][i].received = 3
        /\ log[m][i].clock = 10

\* C2: the clock values of a machine's event records are strictly
\* increasing from one record to the next.
C2_RecordsStrictlyIncreasing ==
    \A m \in VMs : \A i \in 1..Len(log[m]) :
        log[m][i].clock > PrevClock(m, i)

\* a log whose first record is a receive that lifts the clock from 0 to 2
\* and whose second is a local event
C2_Witness ==
    \E m \in VMs :
        /\ Len(log[m]) = 2
        /\ log[m][1].kind = "Received"
        /\ log[m][1].clock = 2
        /\ log[m][2].kind \in {"Sent", "Internal"}

\* C3: a tick that finds the inbox empty advances the clock by exactly 1:
\* after its mutation the clock is the clock at the start of the tick plus
\* 1, whatever was drawn and whatever the sends did, and every Sent or
\* Internal record shows the clock of the record before plus 1.
C3_LocalRule ==
    \A m \in VMs :
        /\ (pc[m] \in {"send", "log"} /\ log_kind[m] \in {"Sent", "Internal"}) =>
              logical_clock[m] = before[m] + 1
        /\ (pc[m] = "crashed" /\ exc[m] = "IndexError") =>
              logical_clock[m] = before[m] + 1
        /\ \A i \in 1..Len(log[m]) :
              log[m][i].kind \in {"Sent", "Internal"} =>
                 log[m][i].clock = PrevClock(m, i) + 1

\* a machine has logged an Internal and a Sent event and is in a send tick
\* whose connect was refused
C3_Witness ==
    \E m \in VMs :
        /\ Len(log[m]) = 2
        /\ {log[m][1].kind, log[m][2].kind} = {"Internal", "Sent"}
        /\ pc[m] = "log"
        /\ last_send[m] = "refused"

\* C4, as claimed, for the multiprocess variant: whenever the scheduler is
\* between ticks or has left run(), the machine has made as many clock
\* mutations as it has started ticks and has written as many records.
C4_OneMutationOneRecordPerTick ==
    \A m \in VMs :
        (variant = "multiprocess" /\ pc[m] \in {"top", "done", "crashed"}) =>
            /\ mutations[m] = ticks[m]
            /\ Len(log[m]) = ticks[m]

\* C5: the scheduler pops values in the order handle_client put them: the
\* values put so far are the values popped so far, then those waiting in
\* message_queue, then those waiting in network_queue.
C5_FifoConsumption ==
    \A m \in VMs :
        pushed[m] = consumed[m] \o message_queue[m] \o network_queue[m]

\* two different values were put, the first has been popped after the
\* transfer between the queues, the second waits in message_queue
C5_Witness ==
    \E m \in VMs :
        /\ variant = "multiprocess"
        /\ Len(pushed[m]) = 2
        /\ pushed[m][1] # pushed[m][2]
        /\ consumed[m] = <<pushed[m][1]>>
        /\ message_queue[m] = <<pushed[m][2]>>

\* C6, as claimed: the step of a machine with exactly one peer that draws
\* event type 2 advances the clock by 1 and goes on to log_event("Sent")
\* with no send_message call.
C6_DrawTwoOnePeerLogsSent ==
    [][\A m \in VMs :
          (Len(peers[m]) = 1 /\ LocalLocked(m, 2)) =>
              /\ logical_clock'[m] = logical_clock[m] + 1
              /\ pc'[m] = "log"
              /\ log_kind'[m] = "Sent"
              /\ send_todo'[m] = <<>>]_vars

\* C7, as claimed: a machine with at most one peer that has not been
\* stopped never has an exception escape a tick, and send_message is only
\* ever due for members of its peer list.
C7_FewPeersNeverRaise ==
    \A m \in VMs :
        Len(peers[m]) <= 1 =>
            /\ running[m] => exc[m] = "none"
            /\ \A i \in 1..Len(send_todo[m]) :
                  \E j \in 1..Len(peers[m]) : send_todo[m][i] = peers[m][j]

\* C8, as claimed, for the multiprocess variant: no exception escapes run().
C8_NoExceptionEscapes ==
    \A m \in VMs : variant = "multiprocess" => exc[m] = "none"

\* C9: a send_message call whose connect is refused returns normally, makes
\* no second attempt and leaves no copy of the message anywhere: the call is
\* struck off the tick's calls, run() goes on to the next call or to
\* log_event, and the sockets, handlers and queues of every machine are as
\* before, so nothing is left that could deliver the message later.
C9_RefusedSendIsDropped ==
    [][\A m \in VMs :
          (/\ pc[m] = "send"
           /\ send_todo'[m] # send_todo[m]
           /\ ~Listening(Head(send_todo[m]))) =>
              /\ send_todo'[m] = Tail(send_todo[m])
              /\ pc'[m] \in {"send", "log"}
              /\ exc'[m] = "none"
              /\ backlog' = backlog
              /\ handlers' = handlers
              /\ <<network_queue, message_queue, pushed>>' =
                    <<network_queue, message_queue, pushed>>
              /\ logical_clock' = logical_clock]_vars

\* a send tick whose only connect was refused is about to log its event,
\* and the peer holds nothing
C9_Witness ==
    \E m \in VMs :
        /\ pc[m] = "log"
        /\ last_send[m] = "refused"
        /\ exc[m] = "none"
        /\ Len(peers[m]) = 1
        /\ backlog[peers[m][1]] = <<>>
        /\ handlers[peers[m][1]] = {}
        /\ pushed[peers[m][1]] = <<>>

\* C10: the clock of every Received record exceeds the value received, the
\* clock of the Sent record of the sender's tick that sent the value, and
\* the recipient's own clock before the receive.
C10_ClockCondition ==
    \A m \in VMs : \A i \in 1..Len(log[m]) :
        log[m][i].kind = "Received" =>
            LET x == consumed[m][NumReceived(m, i)]
            IN /\ log[m][i].received = x.val
               /\ log[m][i].clock > x.val
               /\ log[m][i].clock > PrevClock(m, i)
               /\ \A k \in 1..Len(log[x.src]) :
                     (log[x.src][k].kind = "Sent" /\ log[x.src][k].clock = x.val)
                         => log[m][i].clock > log[x.src][k].clock

\* a Received record whose sender has logged the Sent record of that value
C10_Witness ==
    \E m \in VMs : \E i \in 1..Len(log[m]) :
        /\ log[m][i].kind = "Received"
        /\ LET x == consumed[m][NumReceived(m, i)]
           IN \E k \in 1..Len(log[x.src]) :
                 /\ log[x.src][k].kind = "Sent"
                 /\ log[x.src][k].clock = log[m][i].received

C12_StopTerminates ==
    \A m \in VMs :
        (~running[m]) ~> (/\ ~running[m]
                          /\ pc[m] \in {"done", "crashed"}
                          /\ server_socket[m] = "closed")

\* machine 0 was stopped, its run() has returned and its socket is closed,
\* while machine 1 keeps running and has just had a send to it refused
C12_Witness ==
    /\ ~running[0]
    /\ pc[0] = "done"
    /\ server_socket[0] = "closed"
    /\ running[1]
    /\ peers[1] = <<0>>
    /\ pc[1] = "log"
    /\ last_send[1] = "refused"

\* C13: a machine whose self.running is False starts no tick, and once it is
\* between ticks or has left run() no step writes a record for it or changes
\* its clock: only the tick that was in flight when the flag was cleared
\* can still act.
C13_NoTickAfterStop ==
    [][\A m \in VMs :
          ~running[m] =>
              /\ ticks'[m] = ticks[m]
              /\ pc[m] \in {"top", "done", "crashed"} =>
                    /\ pc'[m] \in {"top", "done", "crashed"}
                    /\ log'[m] = log[m]
                    /\ logical_clock'[m] = logical_clock[m]
                    /\ mutations'[m] = mutations[m]]_vars

\* a machine was stopped after its first tick and has left run() with one
\* record, while the other machine went on to use every remaining tick
C13_Witness ==
    \E m \in VMs :
        /\ ~running[m]
        /\ pc[m] = "done"
        /\ ticks[m] = 1
        /\ Len(log[m]) = 1
        /\ TotalTicks = MaxTicks
        /\ running[1 - m]

\* C14: self.running is True after construction; it changes only from True
\* to False, in a step that is a stop() call, and no step of the scheduler,
\* the listener, a handler or a send sets it back to True.
C14_RunningClearedOnce ==
    /\ \A m \in VMs : running[m]
    /\ [][\A m \in VMs :
            /\ ~running[m] => ~running'[m]
            /\ running'[m] # running[m] =>
                  /\ log_file'[m] = "closed"
                  /\ UNCHANGED <<queues, sched, handlers>>]_vars

\* a stopped machine of the logclock variant whose run() has returned and
\* whose listener has closed the socket, after a handler had put a value
C14_Witness ==
    \E m \in VMs :
        /\ variant = "logclock"
        /\ ~running[m]
        /\ pc[m] = "done"
        /\ server_socket[m] = "closed"
        /\ pushed[m] # <<>>
        /\ handlers[m] = {}

\* C15, as claimed: a stop() call on a machine that is already stopped
\* raises nothing and changes no variable of the machine.
C15_SecondStopIsQuiet ==
    [][\A m \in VMs :
          StopAgain(m) =>
              /\ stop_exc'[m] = "none"
              /\ UNCHANGED <<running, log_file, logical_clock,
                             network_queue, message_queue>>]_vars

\* a payload that is empty or holds a byte that is not a digit
Malformed(data) == data = <<>> \/ \E i \in 1..Len(data) : data[i] = NonDigit

\* the values put for outside clients, in put order
FromClients(q) == SelectSeq(q, LAMBDA x : x.src = NoValue)

\* the payloads of a history that are well-formed, in order
WellFormed(h) == SelectSeq(h, LAMBDA d : ~Malformed(d))

\* C16: a handler that finds a malformed or empty payload puts nothing,
\* changes no clock and leaves the socket listening and its backlog and the
\* other handlers as they are; a handler that finds a well-formed payload
\* puts its value at the tail of the inbox.  So once every connection made
\* has been handled, the values put for outside clients are exactly the
\* well-formed payloads they wrote, also those written after malformed ones.
C16_MalformedIsDropped ==
    /\ [](\A m \in VMs :
            (backlog[m] = <<>> /\ handlers[m] = {}) =>
                /\ Len(FromClients(pushed[m])) = Len(WellFormed(ext_sent[m]))
                /\ \A i \in 1..Len(FromClients(pushed[m])) :
                      \E j \in 1..Len(ext_sent[m]) :
                          ext_sent[m][j] = DecStr(FromClients(pushed[m])[i].val))
    /\ [][\A m \in VMs : \A c \in handlers[m] :
            (handlers'[m] = handlers[m] \ {c}) =>
                IF Malformed(c.data)
                THEN /\ UNCHANGED <<network_queue, message_queue, pushed>>
                     /\ UNCHANGED <<logical_clock, server_socket, backlog>>
                     /\ server_socket[m] = "listening"
                ELSE /\ pushed'[m] = Append(pushed[m], Last(pushed'[m]))
                     /\ DecStr(Last(pushed'[m]).val) = c.data
                     /\ IF variant = "multiprocess"
                        THEN network_queue'[m] =
                                Append(network_queue[m], Last(pushed'[m]))
                        ELSE message_queue'[m] =
                                Append(message_queue[m], Last(pushed'[m]))
                     /\ logical_clock' = logical_clock]_vars

\* a client wrote a malformed payload and then the number 7 to machine 0:
\* both connections were accepted and handled, only the 7 is in the inbox,
\* the clock has not moved and the socket still listens
C16_Witness ==
    /\ ext_sent[0] = << <<NonDigit>>, <<7>> >>
    /\ backlog[0] = <<>>
    /\ handlers[0] = {}
    /\ pushed[0] = <<[src |-> NoValue, val |-> 7]>>
    /\ logical_clock[0] = 0
    /\ server_socket[0] = "listening"

\* the values waiting for machine m, oldest first
Inbox(m) == message_queue[m] \o network_queue[m]

\* C17: a tick that starts with a value waiting takes the receive branch;
\* the receive branch pops the oldest value and nothing else, calls
\* send_message for nobody and ends in log_event("Received"), however many
\* values wait; a tick that starts with nothing waiting takes the branch
\* that draws an event, and only that branch sends or logs Sent or Internal.
C17_NonEmptyInboxReceives ==
    [][\A m \in VMs :
          /\ ticks'[m] # ticks[m] =>
                IF Inbox(m) # <<>>
                THEN /\ pc'[m] = "recv_cs"
                     /\ send_todo'[m] = <<>>
                     /\ consumed'[m] \o Inbox(m)' = consumed[m] \o Inbox(m)
                ELSE /\ pc'[m] = "ev_cs"
                     /\ consumed'[m] = consumed[m]
          /\ (pc[m] = "recv_cs" /\ pc'[m] # "recv_cs") =>
                /\ pc'[m] = "log"
                /\ log_kind'[m] = "Received"
                /\ send_todo'[m] = <<>>
                /\ Len(consumed'[m]) = NumReceived(m, Len(log[m])) + 1
                /\ consumed'[m] \o Inbox(m)' = consumed[m] \o Inbox(m)
                /\ received_time'[m] = Last(consumed'[m]).val
          /\ (pc'[m] = "send" /\ pc[m] # "send") => pc[m] = "ev_cs"
          /\ (log_kind'[m] \in {"Sent", "Internal"}
                 /\ log_kind'[m] # log_kind[m]) => pc[m] = "ev_cs"]_vars

\* a tick started with two values waiting: it popped the first, is about
\* to log Received with no send due, and the second still waits
C17_Witness ==
    \E m \in VMs :
        /\ Len(pushed[m]) = 2
        /\ pc[m] = "log"
        /\ log_kind[m] = "Received"
        /\ consumed[m] = <<pushed[m][1]>>
        /\ Inbox(m) = <<pushed[m][2]>>
        /\ send_todo[m] = <<>>
        /\ received_time[m] = pushed[m][1].val

\* C18: on a machine with at least two peers, the step that draws r in a
\* tick with an empty inbox fixes the send_message calls of the tick: for
\* r = 1 the peer at position 0 only, for r = 2 the peer at position 1 only,
\* for r = 3 every peer in list order, each ending in log_event("Sent"); for
\* r in 4..10 none, ending in log_event("Internal").  Each send_message
\* call connects to the peer it is called for and to nobody else.
C18_DrawDeterminesTick ==
    [][\A m \in VMs :
          /\ Len(peers[m]) >= 2 =>
                \A r \in EventTypes :
                    LocalLocked(m, r) =>
                        /\ exc'[m] = "none"
                        /\ log_kind'[m] = IF r <= 3 THEN "Sent" ELSE "Internal"
                        /\ send_todo'[m] =
                              CASE r = 1 -> <<peers[m][1]>>
                                [] r = 2 -> <<peers[m][2]>>
                                [] r = 3 -> peers[m]
                                [] OTHER -> <<>>
                        /\ pc'[m] = IF r <= 3 THEN "send" ELSE "log"
          /\ (pc[m] = "send" /\ send_todo'[m] # send_todo[m]) =>
                /\ send_todo'[m] = Tail(send_todo[m])
                /\ pc'[m] = IF send_todo'[m] = <<>> THEN "log" ELSE "send"
                /\ log_kind'[m] = "Sent"
                /\ \A t \in VMs :
                      IF t = Head(send_todo[m]) /\ server_socket[t] = "listening"
                      THEN backlog'[t] =
                              Append(backlog[t],
                                     [src |-> m, data |-> DecStr(logical_clock[m])])
                      ELSE backlog'[t] = backlog[t]]_vars

\* a machine with two peers drew 3 in its first tick: its message reached
\* the socket of the first peer, the connect to the second was refused, and
\* log_event("Sent") is next
C18_Witness ==
    \E m \in VMs :
        /\ Len(peers[m]) = 2
        /\ ticks[m] = 1
        /\ pc[m] = "log"
        /\ log_kind[m] = "Sent"
        /\ last_send[m] = "refused"
        /\ backlog[peers[m][1]] = <<[src |-> m, data |-> <<1>>]>>

\* whether machine m has sent the value v in a Send tick: a tick whose Sent
\* record shows v, or the tick in flight, or the tick that ended in the
\* ValueError of a closed log file, with the clock at v since its increment
SentBy(m, v) ==
    \/ \E k \in 1..Len(log[m]) : log[m][k].kind = "Sent" /\ log[m][k].clock = v
    \/ /\ pc[m] \in {"send", "log"}
       /\ log_kind[m] = "Sent"
       /\ logical_clock[m] = v
       /\ before[m] + 1 = v
    \/ /\ pc[m] = "crashed"
       /\ exc[m] = "ValueError"
       /\ logical_clock[m] = v
       /\ before[m] + 1 = v

\* C19: every message a machine has sent -- waiting at a socket, held by a
\* handler, or put into an inbox -- carries the clock the sender had right
\* after the increment of the Send tick that sent it, which is the clock of
\* that tick's Sent record once it is written; the clock stays at that value
\* through all send_message calls of the tick, so a broadcast writes the
\* same value to every peer; and the bytes written decode to that value.
C19_PayloadIsClockAfterIncrement ==
    /\ [](\A t \in VMs :
            /\ \A i \in 1..Len(pushed[t]) :
                  SentBy(pushed[t][i].src, pushed[t][i].val)
            /\ \A i \in 1..Len(backlog[t]) :
                  /\ IsDigits(backlog[t][i].data)
                  /\ SentBy(backlog[t][i].src, ParseInt(backlog[t][i].data))
            /\ \A c \in handlers[t] :
                  /\ IsDigits(c.data)
                  /\ SentBy(c.src, ParseInt(c.data))
            /\ pc[t] = "send" => logical_clock[t] = before[t] + 1)
    /\ [][\A t \in VMs :
            Len(backlog'[t]) > Len(backlog[t]) =>
                \E m \in VMs :
                    /\ pc[m] = "send"
                    /\ Head(send_todo[m]) = t
                    /\ backlog'[t] =
                          Append(backlog[t],
                                 [src |-> m, data |-> DecStr(before[m] + 1)])
                    /\ logical_clock'[m] = before[m] + 1]_vars

\* a machine with two peers is in the broadcast of its second tick: the
\* connection to the first peer carries its clock 2, the call for the
\* second peer is still due, and the clock is still 2
C19_Witness ==
    \E m \in VMs :
        /\ Len(peers[m]) = 2
        /\ pc[m] = "send"
        /\ send_todo[m] = <<peers[m][2]>>
        /\ before[m] = 1
        /\ logical_clock[m] = 2
        /\ Len(backlog[peers[m][1]]) >= 1
        /\ Last(backlog[peers[m][1]]) = [src |-> m, data |-> <<2>>]

\* the value the clock takes in the mutation of the tick machine m is in
MutationValue(m) ==
    IF log_kind[m] = "Received"
    THEN MaxOf(before[m], received_time[m]) + 1
    ELSE before[m] + 1

\* C20: the clock of a machine changes only in the step its scheduler
\* thread takes while holding the lock, once per tick; from that step until
\* the record of the tick is written no step of any thread -- listener,
\* handler, stop, the other machine -- changes it; and the record written
\* shows the clock as it is then, which is the value of the mutation.
C20_RecordShowsMutationValue ==
    /\ [](\A m \in VMs :
            pc[m] \in {"send", "log"} => logical_clock[m] = MutationValue(m))
    /\ [][\A m \in VMs :
            /\ logical_clock'[m] # logical_clock[m] =>
                  /\ pc[m] \in {"recv_cs", "ev_cs"}
                  /\ lock[m] = "run"
                  /\ mutations'[m] = mutations[m] + 1
            /\ pc[m] \in {"send", "log"} =>
                  logical_clock'[m] = logical_clock[m]
            /\ Len(log'[m]) > Len(log[m]) =>
                  /\ pc[m] = "log"
                  /\ log'[m] = Append(log[m], Last(log'[m]))
                  /\ Last(log'[m]).kind = log_kind[m]
                  /\ Last(log'[m]).clock = logical_clock[m]
                  /\ Last(log'[m]).clock = MutationValue(m)]_vars

\* in its second tick a machine has raised its clock to 2 and released the
\* lock; before it writes the record, a handler thread of it holds a
\* message that its listener accepted
C20_Witness ==
    \E m \in VMs :
        /\ pc[m] = "log"
        /\ Len(log[m]) = 1
        /\ logical_clock[m] = 2
        /\ log_file[m] = "open"
        /\ handlers[m] # {}

\* C21, as claimed: the queue length of every Received record is the number
\* of values that were delivered to the machine and not yet popped at the
\* moment the get() of its tick returned, whichever queue held them.
C21_QueueLengthIsWaitingAfterPop ==
    [][\A m \in VMs :
        (Len(log'[m]) > Len(log[m]) /\ Last(log'[m]).kind = "Received") =>
            Last(log'[m]).qlen = waiting[m]]_vars

\* what the scheduler thread of machine m can read of its own machine
SenderView(m) ==
    [clock |-> logical_clock[m], nq |-> network_queue[m],
     mq |-> message_queue[m], log |-> log[m], kind |-> log_kind[m],
     exc |-> exc[m], lock |-> lock[m], file |-> log_file[m]]

\* C22: a send_message call leaves the sender where it would be had the
\* outcome been the other one: whether the peer accepted the connection or
\* refused it, the call changes neither the clock nor the inbox nor the log
\* of the sender and raises nothing, the scheduler goes on to the next peer
\* of the tick or to log_event as the list of peers alone tells, and the
\* record of the tick is the Sent record with the clock of the increment.
\* Every value on the right is read from the sender before the step and
\* none depends on the peer, so two runs that differ only in the peers
\* that were reachable leave the sender in the same state.
C22_SendOutcomeDoesNotShow ==
    [][\A m \in VMs :
        /\ (/\ pc[m] = "send"
            /\ <<pc[m], send_todo[m], last_send[m], exc[m]>>'
                   # <<pc[m], send_todo[m], last_send[m], exc[m]>>) =>
               /\ SenderView(m)' = SenderView(m)
               /\ send_todo'[m] = Tail(send_todo[m])
               /\ pc'[m] = IF Tail(send_todo[m]) # <<>> THEN "send" ELSE "log"
        /\ (/\ pc[m] = "log"
            /\ log_kind[m] = "Sent"
            /\ Len(log'[m]) > Len(log[m])) =>
               /\ log'[m] = Append(log[m],
                                   [kind |-> "Sent", received |-> NoValue,
                                    clock |-> before[m] + 1, qlen |-> NoValue])
               /\ logical_clock'[m] = before[m] + 1
               /\ network_queue'[m] = network_queue[m]
               /\ message_queue'[m] = message_queue[m]]_vars

\* a broadcast with both outcomes: the first peer holds the connection and
\* its payload, the second refused, and the sender is about to write the
\* Sent record
C22_Witness ==
    \E m \in VMs :
        /\ pc[m] = "log"
        /\ log_kind[m] = "Sent"
        /\ Len(peers[m]) = 2
        /\ last_send[m] = "refused"
        /\ backlog[peers[m][1]] # <<>>
        /\ Last(backlog[peers[m][1]]) =
              [src |-> m, data |-> DecStr(logical_clock[m])]

\* C23: the scheduler thread is inside the clock's read-modify-write only
\* with the lock of its machine in hand, every change of a clock is made in
\* such a step, which releases the lock, and a step changes the clock of
\* one machine at most; the scheduler thread being the only thread that
\* takes the lock or assigns the clock, no two threads are ever inside.
C23_ClockMutatedUnderLock ==
    /\ [](\A m \in VMs :
            /\ lock[m] \in {"free", "run"}
            /\ pc[m] \in {"recv_cs", "ev_cs"} => lock[m] = "run")
    /\ [][\A m \in VMs :
            /\ logical_clock'[m] # logical_clock[m] =>
                  /\ lock[m] = "run"
                  /\ lock'[m] = "free"
                  /\ \A o \in VMs \ {m} : logical_clock'[o] = logical_clock[o]
            /\ (lock'[m] = "run" /\ lock[m] # "run") =>
                  (lock[m] = "free" /\ pc[m] = "top")]_vars

\* the scheduler thread of a machine holds the lock for a receive while a
\* handler thread of the same machine is about to put a value
C23_Witness ==
    \E m \in VMs :
        /\ lock[m] = "run"
        /\ pc[m] = "recv_cs"
        /\ handlers[m] # {}

\* C24: while the scheduler thread of a machine is in its send_message
\* calls the lock of that machine is free, and so it is in every step that
\* puts a connection of that machine into a peer's backlog.
C24_LockFreeWhileSending ==
    /\ [](\A m \in VMs : pc[m] = "send" => lock[m] = "free")
    /\ [][\A t \in VMs :
            Len(backlog'[t]) > Len(backlog[t]) =>
                LET m == Last(backlog'[t]).src
                IN m \in VMs => (lock[m] = "free" /\ lock'[m] = "free")]_vars

\* a machine is about to connect to a peer that is listening
C24_Witness ==
    \E m \in VMs :
        /\ pc[m] = "send"
        /\ send_todo[m] # <<>>
        /\ Listening(Head(send_todo[m]))
        /\ lock[m] = "free"

\* C25: with every empty() test and every get a step of its own and the
\* handler threads putting values in between, no get_nowait() raises
\* queue.Empty and no get() waits: each get finds the queue it takes from
\* non-empty, because the scheduler thread is the only thread that takes
\* values out.
C25_PopsNeverFail ==
    \A m \in VMs :
        /\ exc[m] # "Empty"
        /\ pc[m] # "blocked"
        /\ pc[m] = "drain_get" => network_queue[m] # <<>>
        /\ pc[m] = "get" => message_queue[m] # <<>>
        /\ (pc[m] = "recv_cs" /\ variant = "multiprocess") =>
              message_queue[m] # <<>>

\* the scheduler thread is between a test that found a value and the get
\* while a handler thread holds a second value it is about to put
C25_Witness ==
    \E m \in VMs :
        /\ \/ pc[m] = "drain_get" /\ Len(network_queue[m]) = 1
           \/ pc[m] = "get" /\ Len(message_queue[m]) = 1
        /\ handlers[m] # {}

\* no peer of machine m accepts a connection: none is a machine with a
\* listening socket
AllPeersUnreachable(m) ==
    \A i \in 1..Len(peers[m]) : ~Listening(peers[m][i])

\* C26: under fair scheduling, a tick that found the inbox empty while no
\* peer of the machine accepts connections comes back to the top of the
\* loop with its record written, whatever is drawn, unless stop() is called
\* on the machine meanwhile: every refused connect returns at once.  The
\* machines taken are those whose branch on the draw cannot raise: the
\* multiprocess variant, and logclock.py with two peers.
C26_TickWithoutPeersCompletes ==
    \A m \in VMs :
        (/\ pc[m] = "ev_cs"
         /\ AllPeersUnreachable(m)
         /\ variant = "multiprocess" \/ Len(peers[m]) = 2)
        ~> (\/ pc[m] = "top" /\ Len(log[m]) = ticks[m]
            \/ ~running[m])

\* logclock.py: machine 1 was stopped and its listener has closed the
\* socket without anything having reached it; machine 0, whose other peer
\* does not exist, has completed a send tick: its Sent record is written
\* and it is back at the top of the loop
C26_Witness ==
    /\ variant = "logclock"
    /\ peers[0] = <<1, 2>>
    /\ handlers[1] = {}
    /\ server_socket[1] = "closed"
    /\ running[0]
    /\ pc[0] = "top"
    /\ ticks[0] = 1
    /\ log[0] = <<SentRecord(1)>>
    /\ backlog[1] = <<>>
    /\ pushed[1] = <<>>

\* the Received records of machine m, in the order written
ReceivedRecords(m) == SelectSeq(log[m], LAMBDA e : e.kind = "Received")

\* 1 while a value popped by machine m is without its record: the receive
\* tick is between the get and log_event, or log_event raised
Unrecorded(m) == IF waiting[m] # NoValue THEN 1 ELSE 0

\* C27, as claimed: at every moment the values handlers have put are as
\* many as the Received records written plus the values waiting in the
\* queues.
C27_DeliveredIsRecordedPlusPending ==
    \A m \in VMs :
        Len(pushed[m]) = Len(ReceivedRecords(m)) + Len(Inbox(m))

\* C27, amended: with handler threads putting concurrently, the values put
\* are as many as the Received records written, plus the values waiting in
\* the two queues, plus one while a popped value is without its record;
\* and the k-th Received record shows the k-th value put, so that no value
\* put is recorded twice and none is skipped.
C27_DeliveredIsRecordedPendingOrInFlight ==
    \A m \in VMs :
        /\ Len(pushed[m]) =
              Len(ReceivedRecords(m)) + Len(Inbox(m)) + Unrecorded(m)
        /\ \A k \in 1..Len(ReceivedRecords(m)) :
              ReceivedRecords(m)[k].received = pushed[m][k].val

\* two handler threads of a machine ran concurrently and put the value
\* sent second before the value sent first; the machine has popped the
\* first value put and not yet written its record, the other one waits
C27_Witness ==
    \E m \in VMs :
        /\ Len(pushed[m]) = 2
        /\ pushed[m][1].val = 2
        /\ pushed[m][2].val = 1
        /\ pc[m] = "log"
        /\ log_kind[m] = "Received"
        /\ received_time[m] = 2
        /\ ReceivedRecords(m) = <<>>
        /\ Len(Inbox(m)) = 1

\* C28: every clock is a natural number and no step lowers it; a step that
\* changes the clock of a machine is the step of its scheduler thread
\* inside `with self.lock`; and a step in which a connection is made,
\* accepted or handled, a value is put, a socket or a log file is closed,
\* self.running is cleared or a send_message call returns changes no clock.
C28_OnlyTickChangesClock ==
    /\ [](\A m \in VMs : logical_clock[m] \in Nat)
    /\ [][/\ \A m \in VMs :
              /\ logical_clock'[m] >= logical_clock[m]
              /\ logical_clock'[m] # logical_clock[m] =>
                    /\ pc[m] \in {"recv_cs", "ev_cs"}
                    /\ pc'[m] \in {"send", "log", "crashed"}
                    /\ ticks[m] = mutations[m] + 1
          /\ (\/ backlog' # backlog
              \/ handlers' # handlers
              \/ pushed' # pushed
              \/ server_socket' # server_socket
              \/ log_file' # log_file
              \/ running' # running
              \/ \E m \in VMs : Len(send_todo'[m]) < Len(send_todo[m]))
             => logical_clock' = logical_clock]_vars

\* a value larger than the clock of a machine has been put into its inbox
\* by a handler and stop() has been called on the machine, and its clock
\* is what it was
C28_Witness ==
    \E m \in VMs :
        /\ Inbox(m) # <<>>
        /\ Head(Inbox(m)).val = 2
        /\ logical_clock[m] = 0
        /\ ~running[m]
        /\ log_file[m] = "closed"

RECURSIVE Excess(_, _)
\* by how much the Received records among the first i records of machine m
\* have lifted its clock beyond one per tick: a Received record whose value
\* is above the clock the tick began with adds the difference
Excess(m, i) ==
    IF i = 0 THEN 0
    ELSE Excess(m, i - 1)
         + (IF /\ log[m][i].kind = "Received"
               /\ log[m][i].received > PrevClock(m, i)
            THEN log[m][i].received - PrevClock(m, i) ELSE 0)

\* C30: the clock in the n-th record of a machine, which is its clock after
\* n completed ticks, is n plus what its Received ticks added; so it is at
\* least n, it is n when none of the n ticks was a Receive, and when it is
\* above n one of the ticks was a Receive of a value that was at least the
\* clock of that moment.  Between ticks the clock of the machine is the
\* clock of its last record.
C30_ClockIsTicksPlusExcess ==
    \A m \in VMs :
        /\ \A n \in 1..Len(log[m]) :
              /\ log[m][n].clock = n + Excess(m, n)
              /\ log[m][n].clock >= n
              /\ NumReceived(m, n) = 0 => log[m][n].clock = n
              /\ log[m][n].clock > n =>
                    \E k \in 1..n : /\ log[m][k].kind = "Received"
                                    /\ log[m][k].received >= PrevClock(m, k)
        /\ (pc[m] \in {"top", "done"} /\ Len(log[m]) > 0) =>
              logical_clock[m] = Last(log[m]).clock

\* a machine has completed one tick and its clock is 3: the tick was the
\* Receive of the value 2
C30_Witness ==
    \E m \in VMs :
        /\ Len(log[m]) = 1
        /\ pc[m] = "top"
        /\ logical_clock[m] = 3
        /\ log[m][1].kind = "Received"
        /\ log[m][1].received = 2

\* assignments to a clock made so far in the whole cluster
TotalMutations == mutations[0] + mutations[1]

\* C31: no clock is above the number of clock assignments the machines have
\* made together, which is at most the number of ticks they have begun
\* together; and every value on its way -- written to a connection that
\* waits at a socket or is held by a handler, or waiting in a queue -- is
\* at least 1 and at most the clock its sender has now.
C31_ClockBoundedByTicks ==
    /\ TotalMutations <= TotalTicks
    /\ \A m \in VMs :
          /\ logical_clock[m] <= TotalMutations
          /\ \A i \in 1..Len(backlog[m]) :
                /\ IsDigits(backlog[m][i].data)
                /\ ParseInt(backlog[m][i].data) >= 1
                /\ ParseInt(backlog[m][i].data)
                      <= logical_clock[backlog[m][i].src]
          /\ \A c \in handlers[m] :
                /\ IsDigits(c.data)
                /\ ParseInt(c.data) >= 1
                /\ ParseInt(c.data) <= logical_clock[c.src]
          /\ \A i \in 1..Len(Inbox(m)) :
                /\ Inbox(m)[i].val >= 1
                /\ Inbox(m)[i].val <= logical_clock[Inbox(m)[i].src]

\* three ticks were begun in the cluster and a machine that made one of
\* them has its clock at 3, having received the value 2; the value 1 of
\* the same sender, whose clock is 2, still waits in its inbox
C31_Witness ==
    \E m \in VMs :
        /\ TotalTicks = 3
        /\ ticks[m] = 1
        /\ logical_clock[m] = 3
        /\ Len(Inbox(m)) = 1
        /\ Inbox(m)[1].val = 1
        /\ logical_clock[Inbox(m)[1].src] = 2

\* the values, in order, of the queue entries of q that came from sender
FromSender(q, sender) ==
    LET own == SelectSeq(q, LAMBDA x : x.src = sender)
    IN [i \in 1..Len(own) |-> own[i].val]

\* the clocks, in order, of the send records of process sender that name
\* process r among the recipients
SentTo(sender, r) ==
    LET own == SelectSeq(log[sender],
                         LAMBDA e : /\ e.kind = "send"
                                    /\ \E i \in 1..Len(e.recipients) :
                                          e.recipients[i] = r)
    IN [i \in 1..Len(own) |-> own[i].clock]

IsPrefix(a, b) == Len(a) <= Len(b) /\ a = SubSeq(b, 1, Len(a))

StrictlyIncreasing(q) == \A i \in 1..(Len(q) - 1) : q[i] < q[i + 1]

\* C32: in clocks.py, for every sender and recipient, the values of the
\* sender that the recipient's handler has put into message_queue are, in
\* put order, the first values the sender wrote to the recipient in send
\* order; those the recipient has processed are, in processing order, the
\* first of those put; the received_time values of the recipient's receive
\* records are the values processed, in that order; and the values
\* processed from one sender are strictly increasing.
C32_PerSenderOrderKept ==
    \A r \in Ports :
        /\ \A q \in Ports \ {r} :
              /\ IsPrefix(FromSender(pushed[r], q), SentTo(q, r))
              /\ IsPrefix(FromSender(consumed[r], q),
                          FromSender(pushed[r], q))
              /\ StrictlyIncreasing(FromSender(consumed[r], q))
        /\ LET rec == SelectSeq(log[r], LAMBDA e : e.kind = "receive")
           IN /\ Len(rec) = Len(consumed[r])
              /\ \A i \in 1..Len(rec) : rec[i].received = consumed[r][i].val

\* a process has processed two values of the same sender, 1 then 2, and
\* logged them in that order
C32_Witness ==
    \E r \in Ports : \E q \in Ports \ {r} :
        /\ FromSender(consumed[r], q) = <<1, 2>>
        /\ Len(log[r]) = 2
        /\ log[r][1].received = 1
        /\ log[r][2].received = 2
        /\ log[r][2].clock = 3

=============================================================================
